---- MODULE Spec2Model ----
(***************************************************************************)
(* A model of src/src/lib.rs: the asynchronous Consul client (Client, its  *)
(* Agent and KV endpoints, and the serialized records).                    *)
(*                                                                         *)
(* Text is modelled as it is in Rust: a String is a sequence of Unicode    *)
(* code points, a Vec<u8> a sequence of bytes 0..255; as_bytes and         *)
(* from_utf8_lossy convert between the two.  An Option is a sequence of    *)
(* length at most one: << >> is None, <<x>> is Some(x).                    *)
(***************************************************************************)
EXTENDS Integers, Sequences, FiniteSets, TLC

VARIABLES client, arc, hyper, calls, net, wire, probe

vars == <<client, arc, hyper, calls, net, wire, probe>>

(***************************************************************************)
(* Bounds of the model.                                                    *)
(***************************************************************************)
\* Number of calls (register or put) issued on one client.
MaxCalls == 2
\* Length of the Tags vector of a serialized record.
MaxTags == 1

(***************************************************************************)
(* Sequence helpers.                                                       *)
(***************************************************************************)
\* s[i..] with a 0-based offset, as a Rust slice.
SliceFrom(s, i) == SubSeq(s, i + 1, Len(s))

\* s.as_bytes()[..n] == sub, at offset i (0-based).
MatchesAt(s, sub, i) ==
    /\ i + Len(sub) <= Len(s)
    /\ \A k \in 1..Len(sub) : s[i + k] = sub[k]

\* str::contains(sub)
Contains(s, sub) == \E i \in 0..Len(s) : MatchesAt(s, sub, i)

\* str::find(sub): the 0-based offset of the first match, or -1 for None.
Find(s, sub) ==
    IF Contains(s, sub)
    THEN CHOOSE i \in 0..Len(s) :
            /\ MatchesAt(s, sub, i)
            /\ \A j \in 0..(i - 1) : ~MatchesAt(s, sub, j)
    ELSE -1

\* str::find(|ch| ch \in set): the 0-based offset of the first such char, or -1.
FindAny(s, set) ==
    IF \E i \in 1..Len(s) : s[i] \in set
    THEN (CHOOSE i \in 1..Len(s) :
            /\ s[i] \in set
            /\ \A j \in 1..(i - 1) : s[j] \notin set) - 1
    ELSE -1

RECURSIVE Concat(_)
\* The concatenation of a sequence of sequences, by halves.
Concat(ss) ==
    IF Len(ss) = 0 THEN << >>
    ELSE IF Len(ss) = 1 THEN ss[1]
    ELSE LET h == Len(ss) \div 2
         IN  Concat(SubSeq(ss, 1, h)) \o Concat(SubSeq(ss, h + 1, Len(ss)))

RECURSIVE JoinComma(_)
\* The elements of a sequence of texts separated by ','.
JoinComma(ss) ==
    IF ss = << >> THEN << >>
    ELSE IF Len(ss) = 1 THEN ss[1]
    ELSE ss[1] \o <<44>> \o JoinComma(Tail(ss))

(***************************************************************************)
(* UTF-8.                                                                  *)
(***************************************************************************)
\* The UTF-8 encoding of one code point below U+10000.
EncodeChar(c) ==
    IF c < 128 THEN <<c>>
    ELSE IF c < 2048 THEN <<192 + (c \div 64), 128 + (c % 64)>>
    ELSE <<224 + (c \div 4096), 128 + ((c \div 64) % 64), 128 + (c % 64)>>

\* String::as_bytes: the UTF-8 bytes of a string.
as_bytes(s) == Concat([i \in 1..Len(s) |-> EncodeChar(s[i])])

IsCont(b) == b >= 128 /\ b <= 191

RECURSIVE from_utf8_lossy(_)
\* String::from_utf8_lossy on bytes whose lead bytes are below 0xE0 or are
\* not lead bytes at all: ASCII is kept, a well-formed two-byte sequence is
\* decoded, and every other byte becomes U+FFFD.
from_utf8_lossy(b) ==
    IF b = << >> THEN << >>
    ELSE IF b[1] < 128 THEN <<b[1]>> \o from_utf8_lossy(Tail(b))
    ELSE IF b[1] >= 194 /\ b[1] <= 223 /\ Len(b) >= 2 /\ IsCont(b[2])
         THEN <<(b[1] - 192) * 64 + (b[2] - 128)>> \o from_utf8_lossy(SliceFrom(b, 2))
    ELSE <<65533>> \o from_utf8_lossy(Tail(b))

(***************************************************************************)
(* serde_json::to_string of the records of the data model.                 *)
(***************************************************************************)
\* The keys of the records, as strings.
K_ID == <<73,68>>
K_Name == <<78,97,109,101>>
K_Tags == <<84,97,103,115>>
K_Port == <<80,111,114,116>>
K_Address == <<65,100,100,114,101,115,115>>
K_Check == <<67,104,101,99,107>>
K_Service == <<83,101,114,118,105,99,101>>
K_ttl == <<116,116,108>>
K_interval == <<105,110,116,101,114,118,97,108>>
K_http == <<104,116,116,112>>
K_script == <<115,99,114,105,112,116>>
K_Deregister == <<68,101,114,101,103,105,115,116,101,114,67,114,105,116,105,99,97,
                  108,83,101,114,118,105,99,101,65,102,116,101,114>>

\* serde_json's escape of one character of a string ('"' and '\').
EscapeChar(c) ==
    IF c = 34 THEN <<92,34>> ELSE IF c = 92 THEN <<92,92>> ELSE <<c>>

Escape(s) == Concat([i \in 1..Len(s) |-> EscapeChar(s[i])])

\* A JSON string.
JsonString(s) == <<34>> \o Escape(s) \o <<34>>

RECURSIVE Decimal(_)
\* The decimal digits of a natural number (itoa).
Decimal(n) == IF n < 10 THEN <<48 + n>> ELSE Decimal(n \div 10) \o <<48 + (n % 10)>>

\* A JSON array of strings (Vec<String>).
JsonStrings(v) == <<91>> \o JoinComma([i \in 1..Len(v) |-> JsonString(v[i])]) \o <<93>>

\* One member of a JSON object: "key":value
Member(key, value) == JsonString(key) \o <<58>> \o value

\* A JSON object of the members given (a sequence of texts).
JsonObject(members) == <<123>> \o JoinComma(members) \o <<125>>

\* A member serialized with skip_serializing_if = "Option::is_none".
SkipIfNone(key, opt, value) == IF opt = << >> THEN << >> ELSE <<Member(key, value)>>

\* A member of type Option<T> serialized with serde's default: None is null.
NullIfNone(key, opt, value) ==
    <<Member(key, IF opt = << >> THEN <<110,117,108,108>> ELSE value)>>

\* Check (lib.rs 68-78).  opt[1] is only evaluated when opt is Some.
SomeString(opt) == IF opt = << >> THEN << >> ELSE JsonString(opt[1])

Check_to_string(c) ==
    JsonObject(
        SkipIfNone(K_ttl, c.ttl, SomeString(c.ttl))
        \o <<Member(K_interval, JsonString(c.interval))>>
        \o SkipIfNone(K_http, c.http, SomeString(c.http))
        \o SkipIfNone(K_script, c.script, SomeString(c.script))
        \o <<Member(K_Deregister, JsonString(c.DeregisterCriticalServiceAfter))>>)

SomeCheck(opt) == IF opt = << >> THEN << >> ELSE Check_to_string(opt[1])

\* RegisterService (lib.rs 56-66).
RegisterService_to_string(s) ==
    JsonObject(
        <<Member(K_ID, JsonString(s.ID)),
          Member(K_Name, JsonString(s.Name)),
          Member(K_Tags, JsonStrings(s.Tags)),
          Member(K_Port, Decimal(s.Port)),
          Member(K_Address, JsonString(s.Address))>>
        \o SkipIfNone(K_Check, s.Check, SomeCheck(s.Check)))

SomeStrings(opt) == IF opt = << >> THEN << >> ELSE JsonStrings(opt[1])

\* Service (lib.rs 40-47): Tags carries no skip attribute.
Service_to_string(s) ==
    JsonObject(
        <<Member(K_ID, JsonString(s.ID)),
          Member(K_Service, JsonString(s.Service))>>
        \o NullIfNone(K_Tags, s.Tags, SomeStrings(s.Tags))
        \o <<Member(K_Port, Decimal(s.Port))>>)

\* serde_json::to_string(&body) for the serializable records; a value is
\* tagged with its type.
to_string(v) ==
    CASE v.type = "RegisterService" -> RegisterService_to_string(v.val)
      [] v.type = "Check" -> Check_to_string(v.val)
      [] v.type = "Service" -> Service_to_string(v.val)

\* Whether a JSON text holds a member with this key.
HasKey(text, key) == Contains(text, JsonString(key) \o <<58>>)

(***************************************************************************)
(* hyper::Uri (hyper 0.11): str::parse::<Uri>() and its Display.           *)
(***************************************************************************)
UriErr(kind) == [ok |-> FALSE, err |-> kind]
UriOk(source) == [ok |-> TRUE, source |-> source]

\* parse_scheme: the offset of the first ':'.
parse_scheme(s) == Find(s, <<58>>)

\* parse_authority: the offset where the authority ends, the first of
\* '/', '?', '#' after "://", or the end of the string.
parse_authority(s) ==
    LET p == Find(s, <<58,47,47>>)
        i == IF p >= 0 THEN p + 3 ELSE 0
        e == FindAny(SliceFrom(s, i), {47, 63, 35})
    IN  IF e >= 0 THEN e + i ELSE Len(s)

\* ByteStr::insert(idx, '/')
InsertSlash(s, idx) == SubSeq(s, 1, idx) \o <<47>> \o SliceFrom(s, idx)

\* Uri::new: the forms of a request target, tried in order.
Uri_new(s) ==
    IF Len(s) = 0 THEN UriErr("Empty")
    ELSE IF s = <<42>> THEN UriOk(s)                    \* asterisk-form
    ELSE IF s[1] = 47 THEN UriOk(s)                     \* origin-form
    ELSE IF Contains(s, <<58,47,47>>) THEN              \* absolute-form
        LET scheme_end == parse_scheme(s)
            auth_end == parse_authority(s)
            authority == SubSeq(s, scheme_end + 4, auth_end)
            has_start_bracket == \E i \in 1..Len(authority) : authority[i] = 91
            has_end_bracket == \E i \in 1..Len(authority) : authority[i] = 93
        IN  IF scheme_end + 3 = auth_end THEN UriErr("MissingAuthority")
            ELSE IF has_start_bracket # has_end_bracket THEN UriErr("Malformed")
            ELSE IF Len(s) = auth_end \/ s[auth_end + 1] # 47
                 THEN UriOk(InsertSlash(s, auth_end))
            ELSE UriOk(s)
    ELSE IF Contains(s, <<47>>) \/ Contains(s, <<63>>) THEN UriErr("Malformed")
    ELSE UriOk(s)                                       \* authority-form

\* impl Display for Uri: the source text.
Display(uri) == uri.source

(***************************************************************************)
(* Client::request and Client::request_json: the request handed to the     *)
(* transport, or a panic of the unwrap.                                    *)
(***************************************************************************)
Panic == [panic |-> TRUE]
Built(req) == [panic |-> FALSE, req |-> req]

\* Request::new(method, uri): no headers, no body.
Request_new(method, uri) ==
    [method |-> method, uri |-> uri, headers |-> [h \in {} |-> 0], body |-> << >>]

\* Headers::set: one value per header name.
HeaderSet(req, name, value) ==
    [req EXCEPT !.headers =
        [h \in (DOMAIN req.headers) \cup {name} |->
            IF h = name THEN value ELSE req.headers[h]]]

set_body(req, bytes) == [req EXCEPT !.body = bytes]

\* Client::request (lib.rs 119-132), up to the hand-over to the transport.
request(self_uri, method, path, type_, body) ==
    LET uri_str == Display(self_uri) \o path
        uri == Uri_new(uri_str)
    IN  IF ~uri.ok THEN Panic
        ELSE Built(set_body(
                HeaderSet(
                    HeaderSet(Request_new(method, uri), "content-type", type_),
                    "content-length", Len(body)),
                body))

\* The length of the text in characters.
JsonContentLength_chars(json) == Len(json)

\* The content-length request_json sets: json.as_bytes().len().
JsonContentLength(json) == Len(as_bytes(json))

\* Client::request_json (lib.rs 134-148), up to the hand-over to the transport.
request_json(self_uri, method, path, body) ==
    LET json == to_string(body)
        uri_str == Display(self_uri) \o path
        uri == Uri_new(uri_str)
    IN  IF ~uri.ok THEN Panic
        ELSE Built(set_body(
                HeaderSet(
                    HeaderSet(Request_new(method, uri), "content-type", "application/json"),
                    "content-length", JsonContentLength(json)),
                as_bytes(json)))

(***************************************************************************)
(* Inputs.                                                                 *)
(***************************************************************************)
\* Base URL strings given to Client::new: "http://h", "h", "", "h/".
Urls == { <<104,116,116,112,58,47,47,104>>, <<104>>, << >>, <<104,47>> }

\* Strings of the record fields: "a", and two characters that are not one
\* byte or not one JSON character each: e-acute and '"'.
Texts == { <<97>>, <<233,34>> }

TagVecs == UNION { [1..n -> Texts] : n \in 0..MaxTags }

OptionOf(S) == { << >> } \cup { <<x>> : x \in S }

Checks ==
    [ttl : OptionOf({<<49,115>>}), interval : {<<49,115>>},
     http : OptionOf({<<104>>}), script : OptionOf({<<97>>}),
     DeregisterCriticalServiceAfter : {<<50,52,104>>}]

RegisterServices ==
    [ID : {<<97>>}, Name : Texts, Tags : TagVecs, Port : {0, 9999},
     Address : {<<104>>}, Check : OptionOf(Checks)]

Services ==
    [ID : {<<97>>}, Service : Texts, Tags : OptionOf(TagVecs), Port : {0, 65536}]

Tagged(type, S) == { [type |-> type, val |-> v] : v \in S }

\* The serializable values of the data model.
Values ==
    Tagged("RegisterService", RegisterServices)
    \cup Tagged("Check", Checks) \cup Tagged("Service", Services)

(***************************************************************************)
(* The serializer applied to every value.                                  *)
(***************************************************************************)
NoProbe == [op |-> "none"]

Serialize ==
    /\ probe.op = "input"
    /\ probe' = [op |-> "to_string", in |-> probe.in, out |-> to_string(probe.in)]
    /\ UNCHANGED <<client, arc, hyper, calls, net, wire>>

(***************************************************************************)
(* The client, its calls and the transport.                                *)
(*                                                                         *)
(* client  the value Client::new returned for the url it was given: none   *)
(*         yet, an Err, a live Client or a dropped one                     *)
(* arc     the strong count of Arc<HyperClient>                            *)
(* hyper   the HyperClient behind the Arc: absent, alive or torn down      *)
(* calls   per call: its arguments, the position of its future, the status *)
(*         the closure captured, and what the future resolved to           *)
(* net     per call: what the transport delivers to its request: a status, *)
(*         a body once it is complete, or a failure                        *)
(* wire    per call: the requests handed to the transport, in order        *)
(***************************************************************************)
CallIds == 1..MaxCalls

\* Arguments given to put: the path "a" and the empty path, each with a
\* value of its own.
PutArgs == { [path |-> <<97>>, data |-> <<1>>], [path |-> << >>, data |-> <<195, 169>>] }
\* The service given to register: a check with http set, as in tests::it_works.
TestService ==
    [ID |-> <<97>>, Name |-> <<233,34>>, Tags |-> << >>, Port |-> 9999,
     Address |-> <<104>>,
     Check |-> << [ttl |-> << >>, interval |-> <<49,115>>, http |-> <<<<104>>>>,
                   script |-> << >>, DeregisterCriticalServiceAfter |-> <<50,52,104>>] >>]

\* Status codes the server answers with, at both edges of the 2xx range.
Statuses == {199, 200, 299, 300}
\* Response bodies: "true\n", "false\n", the empty body, and "m" followed by
\* a byte that is not UTF-8.
Bodies == { <<116,114,117,101,10>>, <<102,97,108,115,101,10>>, << >>, <<109,255>> }

Pending == [kind |-> "Pending"]
Ok(v) == [kind |-> "Ok", value |-> v]
ErrHttp == [kind |-> "Http"]
ErrConsul(msg) == [kind |-> "Consul", msg |-> msg]

IdleCall == [op |-> "none", st |-> "Idle", arg |-> << >>, status |-> 0, result |-> Pending]
NoResponse == [status |-> 0, body |-> << >>, complete |-> FALSE, failed |-> FALSE]

\* StatusCode::is_success
is_success(status) == status >= 200 /\ status < 300

\* Arc::clone and the drop of an Arc.
ArcClone(n) == n + 1
ArcDrop(n) == n - 1

\* What is left of the count after request/request_json return: the clone
\* made for the call is a local of the function, dropped at its end; the
\* FutureResponse returned holds none.
ArcAfterRequest(n) == ArcDrop(ArcClone(n))

\* Client::new that keeps the url as it is and leaves the parse to the
\* first request.
new_deferred(url) ==
    [client |-> [st |-> "live", url |-> url, base_uri |-> UriOk(url)],
     arc |-> 1, hyper |-> "alive"]

\* Client::new (lib.rs 106-109): the parse first, `?` returns its error
\* before the HyperClient is made.
new(url) ==
    LET uri == Uri_new(url)
    IN  IF ~uri.ok
        THEN [client |-> [st |-> "Err", url |-> url, err |-> uri.err],
              arc |-> 0, hyper |-> "absent"]
        ELSE [client |-> [st |-> "live", url |-> url, base_uri |-> uri],
              arc |-> 1, hyper |-> "alive"]

New(url) ==
    /\ client.st = "none"
    /\ client' = new(url).client
    /\ arc' = new(url).arc
    /\ hyper' = new(url).hyper
    /\ UNCHANGED <<calls, net, wire, probe>>

\* The drop of the Client value: its Arc goes, and with the last Arc the
\* HyperClient.  The boxed futures borrow nothing from the Client, so it can
\* be dropped while they are pending.
DropClient ==
    /\ client.st = "live"
    /\ client' = [client EXCEPT !.st = "dropped"]
    /\ arc' = ArcDrop(arc)
    /\ hyper' = IF ArcDrop(arc) = 0 THEN "torn" ELSE hyper
    /\ UNCHANGED <<calls, net, wire, probe>>

\* The next call slot: calls are numbered in the order they are made.
Free(c) == calls[c].st = "Idle" /\ \A d \in 1..(c - 1) : calls[d].st # "Idle"

\* The call after its request was built: panicked in the unwrap, or with
\* the request handed to the transport.
Issue(c, op, arg, out) ==
    /\ calls' = [calls EXCEPT ![c] =
                    [IdleCall EXCEPT !.op = op, !.arg = arg,
                        !.st = IF out.panic THEN "Panicked" ELSE "AwaitingHeaders"]]
    /\ wire' = IF out.panic THEN wire ELSE [wire EXCEPT ![c] = Append(@, out.req)]
    /\ arc' = IF out.panic THEN arc ELSE ArcAfterRequest(arc)
    /\ UNCHANGED <<client, hyper, net, probe>>

\* The path put requests: "/v1/kv/" and the path pushed on it.
kv_uri(path) == <<47,118,49,47,107,118,47>> \o path

\* KV::put (lib.rs 169-173): the request.
put_request(self_uri, path, data) ==
    request(self_uri, "Put", kv_uri(path), "application/octet-stream", data)

\* Agent::register (lib.rs 153): the request.
register_request(self_uri, service) ==
    request_json(self_uri, "Put",
        <<47,118,49,47,97,103,101,110,116,47,115,101,114,118,105,99,101,47,
          114,101,103,105,115,116,101,114>>,
        [type |-> "RegisterService", val |-> service])

Put(c, path, data) ==
    /\ client.st = "live"
    /\ Free(c)
    /\ Issue(c, "put", [path |-> path, data |-> data],
             put_request(client.base_uri, path, data))

Register(c, service) ==
    /\ client.st = "live"
    /\ Free(c)
    /\ Issue(c, "register", [service |-> service],
             register_request(client.base_uri, service))

\* One response slot shared by all the calls of a client.
Response_shared(n, c) == n[1]

\* The response the future of call c reads: the one to its own request.
Response(n, c) == n[c]

\* First closure (lib.rs 154-157, 174-177): the status is captured and the
\* body stream is concatenated.
OnHeaders(call, resp) == [call EXCEPT !.status = resp.status, !.st = "AwaitingBody"]

HeadersArrive(c, status) ==
    /\ calls[c].st = "AwaitingHeaders"
    /\ net' = [net EXCEPT ![c].status = status]
    /\ calls' = [calls EXCEPT ![c] = OnHeaders(@, Response(net', c))]
    /\ UNCHANGED <<client, arc, hyper, wire, probe>>

\* A failure of the body stream after a failing status reported as the
\* domain error.
OnTransportError_merged(call) ==
    [call EXCEPT !.st = "Decoded",
        !.result = IF call.status # 0 /\ ~is_success(call.status)
                   THEN ErrConsul(<< >>) ELSE ErrHttp]

\* map_err(|e| e.into()) (lib.rs 27-31, 158, 178): a hyper::Error of either
\* await becomes Error::Http, and the last closure is skipped.
OnTransportError(call) == [call EXCEPT !.st = "Decoded", !.result = ErrHttp]

TransportFail(c) ==
    /\ calls[c].st \in {"AwaitingHeaders", "AwaitingBody"}
    /\ net' = [net EXCEPT ![c].failed = TRUE]
    /\ calls' = [calls EXCEPT ![c] = OnTransportError(@)]
    /\ UNCHANGED <<client, arc, hyper, wire, probe>>

\* register with 200 as the only success.
register_decode_only200(status, body) ==
    IF status = 200 THEN Ok("unit")
    ELSE ErrConsul(from_utf8_lossy(body))

\* Last closure of register (lib.rs 159-164).
register_decode(status, body) ==
    IF is_success(status) THEN Ok("unit")
    ELSE ErrConsul(from_utf8_lossy(body))

\* put with false as the default of a successful status.
put_decode_default(status, body) ==
    IF is_success(status) /\ body = <<116,114,117,101,10>> THEN Ok(TRUE)
    ELSE IF is_success(status) THEN Ok(FALSE)
    ELSE ErrConsul(from_utf8_lossy(body))

\* Last closure of put (lib.rs 179-190).
put_decode(status, body) ==
    IF is_success(status) /\ body = <<116,114,117,101,10>> THEN Ok(TRUE)
    ELSE IF is_success(status) /\ body = <<102,97,108,115,101,10>> THEN Ok(FALSE)
    ELSE ErrConsul(from_utf8_lossy(body))

OnBody(call, resp) ==
    [call EXCEPT !.st = "Decoded",
        !.result = IF call.op = "put" THEN put_decode(call.status, resp.body)
                   ELSE register_decode(call.status, resp.body)]

BodyComplete(c, body) ==
    /\ calls[c].st = "AwaitingBody"
    /\ net' = [net EXCEPT ![c].body = body, ![c].complete = TRUE]
    /\ calls' = [calls EXCEPT ![c] = OnBody(@, Response(net', c))]
    /\ UNCHANGED <<client, arc, hyper, wire, probe>>

Init ==
    /\ client = [st |-> "none"]
    /\ arc = 0
    /\ hyper = "absent"
    /\ calls = [c \in CallIds |-> IdleCall]
    /\ net = [c \in CallIds |-> NoResponse]
    /\ wire = [c \in CallIds |-> << >>]
    /\ probe = NoProbe

Next ==
    \/ \E url \in Urls : New(url)
    \/ DropClient
    \/ \E c \in CallIds, a \in PutArgs : Put(c, a.path, a.data)
    \/ \E c \in CallIds : Register(c, TestService)
    \/ \E c \in CallIds, status \in Statuses : HeadersArrive(c, status)
    \/ \E c \in CallIds : TransportFail(c)
    \/ \E c \in CallIds, body \in Bodies : BodyComplete(c, body)

Spec == Init /\ [][Next]_vars

(***************************************************************************)
(* The serializer applied to every value of the data model.                *)
(***************************************************************************)
InitSer ==
    /\ client = [st |-> "none"]
    /\ arc = 0
    /\ hyper = "absent"
    /\ calls = [c \in CallIds |-> IdleCall]
    /\ net = [c \in CallIds |-> NoResponse]
    /\ wire = [c \in CallIds |-> << >>]
    /\ probe \in { [op |-> "input", in |-> v] : v \in Values }

SpecSer == InitSer /\ [][Serialize]_vars

(***************************************************************************)
(* request_json and request applied to the same arguments.                 *)
(***************************************************************************)
\* The base URIs of constructed clients.
BaseUris == { Uri_new(u) : u \in { v \in Urls : Uri_new(v).ok } }
Methods == { "Put", "Get" }
\* Paths given to the request functions: "/v", "", "?", "://x".
ReqPaths == { <<47,118>>, << >>, <<63>>, <<58,47,47,120>> }

NotCalled == [called |-> FALSE]
Called(out) == [called |-> TRUE, out |-> out]

CallRequestJson ==
    /\ probe.op = "request"
    /\ ~probe.json.called
    /\ probe' = [probe EXCEPT !.json =
                    Called(request_json(probe.base, probe.method, probe.path, probe.value))]
    /\ UNCHANGED <<client, arc, hyper, calls, net, wire>>

CallRequest ==
    /\ probe.op = "request"
    /\ ~probe.raw.called
    /\ probe' = [probe EXCEPT !.raw =
                    Called(request(probe.base, probe.method, probe.path,
                                   "application/json", as_bytes(to_string(probe.value))))]
    /\ UNCHANGED <<client, arc, hyper, calls, net, wire>>

InitReq ==
    /\ client = [st |-> "none"]
    /\ arc = 0
    /\ hyper = "absent"
    /\ calls = [c \in CallIds |-> IdleCall]
    /\ net = [c \in CallIds |-> NoResponse]
    /\ wire = [c \in CallIds |-> << >>]
    /\ probe \in { [op |-> "request", base |-> b, method |-> m, path |-> p,
                    value |-> v, json |-> NotCalled, raw |-> NotCalled] :
                   b \in BaseUris, m \in Methods, p \in ReqPaths, v \in Values }

NextReq == CallRequestJson \/ CallRequest

SpecReq == InitReq /\ [][NextReq]_vars

(***************************************************************************)
(* The properties.                                                         *)
(***************************************************************************)
\* The state of a call, in the words of the state machine of the design.
StateOf(call) ==
    CASE call.st = "Decoded" /\ call.result.kind = "Ok" -> "Success"
      [] call.st = "Decoded" /\ call.result.kind = "Consul" -> "DomainError"
      [] call.st = "Decoded" /\ call.result.kind = "Http" -> "TransportError"
      [] OTHER -> call.st

Terminal == {"Success", "DomainError", "TransportError"}
InFlight == {"AwaitingHeaders", "AwaitingBody"}

TrueBody == <<116,114,117,101,10>>
FalseBody == <<102,97,108,115,101,10>>
Is2xx(status) == status \in 200..299

\* The text of the response bodies, invalid bytes replaced by U+FFFD.
TextOf(body) == IF body = <<109,255>> THEN <<109,65533>> ELSE body

\* C1: a put whose response (status, body) is complete resolves to true iff
\* the status is 2xx and the body is "true\n", to false iff the status is 2xx
\* and the body is "false\n", and in every other case to Error::Consul with
\* the lossily decoded body as its message, never to a default boolean.
C1_PutResult ==
    \A c \in CallIds :
        (calls[c].op = "put" /\ net[c].complete) =>
            LET s == net[c].status
                b == net[c].body
                r == calls[c].result
            IN  /\ (r = Ok(TRUE)) <=> (Is2xx(s) /\ b = TrueBody)
                /\ (r = Ok(FALSE)) <=> (Is2xx(s) /\ b = FalseBody)
                /\ ~(Is2xx(s) /\ b \in {TrueBody, FalseBody}) =>
                        /\ r = ErrConsul(TextOf(b))
                        /\ r.msg = from_utf8_lossy(b)

\* A put answered 200 with a body that is neither boolean, and one answered
\* with a status outside 2xx and the body "true\n", both domain errors.
C1_Witness ==
    /\ \E c \in CallIds :
        /\ calls[c].op = "put" /\ net[c].complete
        /\ net[c].status = 200 /\ net[c].body = <<109,255>>
        /\ StateOf(calls[c]) = "DomainError"
    /\ \E c \in CallIds :
        /\ calls[c].op = "put" /\ net[c].complete
        /\ net[c].status = 300 /\ net[c].body = TrueBody
        /\ StateOf(calls[c]) = "DomainError"

\* C2: a register whose response is complete resolves to success without a
\* payload iff the status is in 200..299, whatever the body, and otherwise
\* to Error::Consul with the text of the body as its message.
C2_RegisterResult ==
    \A c \in CallIds :
        (calls[c].op = "register" /\ net[c].complete) =>
            LET s == net[c].status
                b == net[c].body
                r == calls[c].result
            IN  /\ (r = Ok("unit")) <=> Is2xx(s)
                /\ ~Is2xx(s) => (r = ErrConsul(TextOf(b)) /\ r.msg = from_utf8_lossy(b))

\* A register answered 299 with an empty body that succeeded, and one
\* answered 300 that is a domain error.
C2_Witness ==
    /\ \E c \in CallIds :
        /\ calls[c].op = "register" /\ net[c].complete
        /\ net[c].status = 299 /\ net[c].body = << >>
        /\ StateOf(calls[c]) = "Success"
    /\ \E c \in CallIds :
        /\ calls[c].op = "register" /\ net[c].complete
        /\ net[c].status = 300
        /\ StateOf(calls[c]) = "DomainError"

\* C3: a call whose transport failed, before the headers or while the body
\* was buffered, ends in Error::Http and not in Error::Consul; a call ends
\* in Error::Consul only with its response body completely received.
C3_TransportError ==
    \A c \in CallIds :
        /\ net[c].failed => calls[c].result = ErrHttp
        /\ calls[c].result.kind = "Consul" => (net[c].complete /\ ~net[c].failed)

\* A put that failed after the headers with status 300 had arrived, and a
\* register that failed before any headers.
C3_Witness ==
    /\ \E c \in CallIds :
        /\ calls[c].op = "put" /\ net[c].failed /\ net[c].status = 300
        /\ StateOf(calls[c]) = "TransportError"
    /\ \E c \in CallIds :
        /\ calls[c].op = "register" /\ net[c].failed /\ net[c].status = 0
        /\ StateOf(calls[c]) = "TransportError"

\* The urls of the model that are no URI: the empty string, and "h/", which
\* has a path but neither a scheme nor a leading '/'.
NotUris == { << >>, <<104,47>> }

ExpectedPut(status, body) ==
    IF Is2xx(status) /\ body = TrueBody THEN Ok(TRUE)
    ELSE IF Is2xx(status) /\ body = FalseBody THEN Ok(FALSE)
    ELSE ErrConsul(TextOf(body))

\* The request of a put is the call's own, and so is what it resolves from.
OwnRequest(c) ==
    wire[c] # << >> =>
        /\ Len(wire[c]) = 1
        /\ wire[c][1].method = "Put"
        /\ wire[c][1].uri.source =
              client.base_uri.source \o <<47,118,49,47,107,118,47>> \o calls[c].arg.path
        /\ wire[c][1].body = calls[c].arg.data

OwnResponse(c) ==
    /\ net[c].status # 0 => calls[c].status = net[c].status
    /\ net[c].complete => calls[c].result = ExpectedPut(net[c].status, net[c].body)
    /\ (~net[c].complete /\ ~net[c].failed) => calls[c].result = Pending

\* C5: of two puts made on one client with different paths, in every
\* interleaving of the arrivals of their headers and bodies, each hands the
\* transport a request with its own path and value, the two requests differ,
\* and each resolves from the response to its own request alone.
C5_Independent ==
    \A c, d \in CallIds :
        (c # d /\ calls[c].op = "put" /\ calls[d].op = "put"
            /\ calls[c].arg.path # calls[d].arg.path) =>
            /\ OwnRequest(c) /\ OwnRequest(d)
            /\ OwnResponse(c) /\ OwnResponse(d)
            /\ (wire[c] # << >> /\ wire[d] # << >>) => wire[c][1] # wire[d][1]

\* Two puts with different paths, the later one resolved to true while the
\* earlier one, answered 300, still waits for its body.
C5_Witness ==
    /\ calls[1].op = "put" /\ calls[2].op = "put"
    /\ calls[1].arg.path # calls[2].arg.path
    /\ wire[1] # << >> /\ wire[2] # << >>
    /\ StateOf(calls[1]) = "AwaitingBody" /\ net[1].status = 300
    /\ StateOf(calls[2]) = "Success" /\ calls[2].result = Ok(TRUE)

\* Absent optional members of a Check are no keys of the text.
CheckOmits(c, text) ==
    /\ c.ttl = << >> => ~HasKey(text, K_ttl)
    /\ c.http = << >> => ~HasKey(text, K_http)
    /\ c.script = << >> => ~HasKey(text, K_script)

\* C6: in the JSON text of every record, an optional field that is absent is
\* no key of the object: Check of RegisterService, ttl, http and script of
\* Check, and Tags of Service.
C6_AbsentOmitted ==
    probe.op = "to_string" =>
        LET t == probe.in.type
            v == probe.in.val
        IN  /\ (t = "RegisterService" /\ v.Check = << >>) => ~HasKey(probe.out, K_Check)
            /\ (t = "RegisterService" /\ v.Check # << >>) => CheckOmits(v.Check[1], probe.out)
            /\ t = "Check" => CheckOmits(v, probe.out)
            /\ (t = "Service" /\ v.Tags = << >>) => ~HasKey(probe.out, K_Tags)

\* C7: every call that was made has handed exactly one request to the
\* transport, and a call in a terminal state stays as it is, with no
\* further request.
C7_OneRequest ==
    [][\A c \in CallIds :
        /\ calls'[c].st # "Idle" => Len(wire'[c]) = 1
        /\ StateOf(calls[c]) \in Terminal => (calls'[c] = calls[c] /\ wire'[c] = wire[c])]_vars

\* C8: while a call is in flight the Arc of the transport handle has a
\* holder and the handle is not torn down.
C8_HandleHeld ==
    \A c \in CallIds :
        StateOf(calls[c]) \in InFlight => (arc >= 1 /\ hyper = "alive")

\* C9: a call that was made is awaiting its response or is in one of the
\* three terminal states; it has no other outcome.
C9_ThreeOutcomes ==
    \A c \in CallIds :
        calls[c].st # "Idle" => StateOf(calls[c]) \in InFlight \cup Terminal

====
